---- MODULE Spec2Model ----
(***************************************************************************)
(* State-machine model of the SETRAF authentication server: the            *)
(* Credential Record (models/User.js) with its lockout methods, the        *)
(* Session Record (models/Session.js), the profile routes                  *)
(* (routes/users.js) and the auth flows behind routes/auth.js.             *)
(* Time is Date.now() in milliseconds; the clock advances by whole hours.  *)
(***************************************************************************)
EXTENDS Integers, Sequences, FiniteSets, Bags, TLC

(* ------------------------------ bounds -------------------------------- *)

\* The clock runs from 0 to MaxNow hours.
MaxNow == 3

\* Login requests that may be in flight (between their read and their write).
MaxInflight == 2

\* Refresh-token values the Token Issuer can draw.
MaxTokens == 3

\* Logins that supply access tokens to the protected routes.
MaxSignIns == 1

\* Protected requests that may be in flight (between guard and response).
MaxRequests == 2

\* Failures of one batch of overlapping logins that the history records.
MaxBatch == 2

(* --------------------------- program values --------------------------- *)

Hour == 60 * 60 * 1000

\* An unset Date field (undefined in the document).
Absent == 0 - 1

\* An unset String field.
NoValue == "undefined"

maxAttempts == 5

lockTime == 2 * 60 * 60 * 1000

\* Lifetimes of the refresh session and of the access token (configuration).
RefreshLifetime == 2 * Hour

AccessLifetime == 1 * Hour

\* Lifetimes of an OTP code and of a password-reset token (configuration).
OtpLifetime == 1 * Hour

ResetLifetime == 2 * Hour

Tokens == 1 .. MaxTokens

OtpCodes == {"123456", "654321"}

VerificationTokens == {"v1", "v0"}

ResetTokens == {"r1"}

Routes == {"GET /profile", "PUT /profile", "DELETE /profile", "GET /stats"}

\* Request bodies of PUT /profile; a field left out is NoValue.
NoBody == [firstName |-> NoValue, lastName |-> NoValue,
           organization |-> NoValue, country |-> NoValue]

Bodies == {[NoBody EXCEPT !.firstName = "Alice", !.country = "GA"]}

\* A body that carries more than the four profile fields.
CraftedBody ==
    [firstName |-> "Al", lastName |-> NoValue, organization |-> "ACME",
     country |-> NoValue, role |-> "admin", email |-> "mallory@x.com",
     emailVerified |-> TRUE, isActive |-> TRUE, loginAttempts |-> 0]

Usernames == {"alice", "bob"}

\* Addresses as the clients type them.
TypedEmails == {"alice@x.com", "Alice@X.com", "bob@x.com"}

\* Passwords that registerValidation lets through: six characters or more
\* with a lower-case letter, an upper-case letter and a digit.
NewPasswords == {"Passw0rd", "Secr3tPw"}

Passwords == {"Passw0rd", "wrongpass"}

\* Values of a JSON body's password that are not strings (a number).
NotStrings == {"12345 (number)"}

Candidates == Passwords \cup NotStrings

Emails == {"alice@x.com", "nobody@x.com"}

\* bcrypt.hash(plain, salt): rounds counts how often the value was hashed.
Hash(pw) == [plain |-> pw.plain, rounds |-> pw.rounds + 1]

Plain(p) == [plain |-> p, rounds |-> 0]

VARIABLES
    now,        \* Date.now()
    users,      \* the users collection: _id -> document
    regs,       \* bag of register requests past the handler's check, awaiting save()
    logins,     \* bag of login requests past the lock gate, awaiting their write
    sessions,   \* the sessions collection: a set of Session documents
    issued,     \* refresh-token values the Token Issuer has drawn so far
    access,     \* access tokens issued so far: signed {userId, exp} assertions
    reqs,       \* bag of protected requests past the first guard
    refreshed,  \* history: successful refreshes per presented refresh-token value
    verified,   \* history: verifications since the artifact was issued, per record
    last,       \* the response most recently sent
    fails,      \* history: credential failures in a row, per record
    lockedTill, \* history: end of the lock due since the 5th failure in a row
    batch       \* history: the failures of the current batch of overlapping logins

vars == <<now, users, regs, logins, reqs, sessions, issued, access, refreshed, verified,
          last, fails, lockedTill, batch>>

tokenVars == <<sessions, issued, access, refreshed>>

lockHistory == <<fails, lockedTill, batch>>

(* ------------------------- models/User.js ----------------------------- *)

\* A slip: the hook without its isModified('password') test.
preSave_always(doc, modifiedPassword) == [doc EXCEPT !.password = Hash(@)]

\* userSchema.pre('save'): the password is hashed when it was modified.
preSave(doc, modifiedPassword) ==
    IF ~modifiedPassword THEN doc ELSE [doc EXCEPT !.password = Hash(@)]

\* email: { lowercase: true }: the setter applied to the stored value and to
\* the value of a query filter.
lowercase(s) == IF s = "Alice@X.com" THEN "alice@x.com" ELSE s

\* new User({...}) with the schema's setters and defaults.
NewDoc(username, email, p, verificationToken) ==
    [username |-> username, email |-> lowercase(email), password |-> Plain(p),
     firstName |-> NoValue, lastName |-> NoValue,
     organization |-> NoValue, country |-> NoValue,
     role |-> "user", isActive |-> TRUE, emailVerified |-> FALSE,
     verificationToken |-> verificationToken,
     resetPasswordToken |-> NoValue, resetPasswordExpires |-> Absent,
     otpCode |-> NoValue, otpExpires |-> Absent,
     loginAttempts |-> 0, lockUntil |-> Absent,
     lastLogin |-> Absent, accessCount |-> 0]

\* The new document as save() stores it when the hashing succeeds.
NewUser(username, email, p, verificationToken) ==
    preSave(NewDoc(username, email, p, verificationToken), TRUE)

\* A slip: the comparison of the lock's end with the clock reversed.
isLocked_reversed(this, t) == this.lockUntil # Absent /\ this.lockUntil < t

isLocked(this, t) == this.lockUntil # Absent /\ this.lockUntil > t

\* bcrypt.compare(s, hash): an argument that is not a string is an error
\* ("Illegal arguments"); a string is compared with the hash.
bcryptCompare(s, hash) ==
    IF s \in NotStrings THEN "error"
    ELSE IF hash.rounds = 1 /\ hash.plain = s THEN "true"
    ELSE "false"

\* The catch of comparePassword throws a new Error.
comparePassword(this, candidatePassword) ==
    LET result == bcryptCompare(candidatePassword, this.password)
    IN  IF result = "error" THEN "throw" ELSE result

\* A slip: the lock set one failure late (> for >=).
incLoginAttempts_late(this, doc, t) ==
    IF this.lockUntil # Absent /\ this.lockUntil < t
    THEN [doc EXCEPT !.loginAttempts = 1, !.lockUntil = Absent]
    ELSE LET inc == [doc EXCEPT !.loginAttempts = @ + 1]
         IN  IF this.loginAttempts + 1 > maxAttempts /\ ~(this.lockUntil # Absent /\ this.lockUntil > t)
             THEN [inc EXCEPT !.lockUntil = t + lockTime]
             ELSE inc

\* this: the document the request read; doc: the stored document this
\* updateOne is applied to; t: Date.now() at the call.
incLoginAttempts(this, doc, t) ==
    IF this.lockUntil # Absent /\ this.lockUntil < t
    THEN [doc EXCEPT !.loginAttempts = 1, !.lockUntil = Absent]
    ELSE LET inc == [doc EXCEPT !.loginAttempts = @ + 1]
         IN  IF this.loginAttempts + 1 >= maxAttempts /\ ~isLocked(this, t)
             THEN [inc EXCEPT !.lockUntil = t + lockTime]
             ELSE inc

\* A slip: the $unset of lockUntil left out.
resetLoginAttempts_keepLock(doc, t) ==
    [doc EXCEPT !.loginAttempts = 0, !.lastLogin = t, !.accessCount = @ + 1]

resetLoginAttempts(doc, t) ==
    [doc EXCEPT !.loginAttempts = 0, !.lastLogin = t,
                !.lockUntil = Absent, !.accessCount = @ + 1]

\* A slip: the index on email declared without unique: true.
DuplicateUser_usernameOnly(coll, username, email) ==
    \E id \in DOMAIN coll : coll[id].username = username

DateFields == {"resetPasswordExpires", "otpExpires", "lockUntil", "lastLogin"}

StringFields == {"firstName", "lastName", "organization", "country",
                 "verificationToken", "resetPasswordToken", "otpCode"}

\* this.toObject(): the paths of the document that have a value.
toObject(this) ==
    [f \in {g \in DOMAIN this :
               IF g \in DateFields THEN this[g] # Absent
               ELSE IF g \in StringFields THEN this[g] # NoValue
               ELSE TRUE} |-> this[f]]

\* userSchema.methods.toJSON: the object without the six paths it deletes.
toJSON(this) ==
    LET user == toObject(this)
    IN  [f \in DOMAIN user \ {"password", "verificationToken", "resetPasswordToken",
                               "resetPasswordExpires", "loginAttempts", "lockUntil"}
           |-> user[f]]

\* The unique indexes on username and email.
DuplicateUser(coll, username, email) ==
    \E id \in DOMAIN coll : coll[id].username = username \/ coll[id].email = email

(* ------------------------ models/Session.js --------------------------- *)

\* A Session document as the schema's defaults make it.
NewSession(userId, refreshToken, expiresAt) ==
    [userId |-> userId, refreshToken |-> refreshToken,
     isValid |-> TRUE, expiresAt |-> expiresAt]

\* A slip: the index declared without unique: true.
DuplicateKey_notUnique(coll, refreshToken) == FALSE

\* The unique index on refreshToken.
DuplicateKey(coll, refreshToken) == \E s \in coll : s.refreshToken = refreshToken

\* A slip: an upsert in place of the insert, replacing the stored document.
SessionCreate_overwrite(coll, doc) ==
    {s \in coll : s.refreshToken # doc.refreshToken} \cup {doc}

\* Session.create(doc): an insert of a refresh token already stored is
\* refused (E11000) and the collection is left as it was.
SessionCreate(coll, doc) ==
    IF DuplicateKey(coll, doc.refreshToken) THEN coll ELSE coll \cup {doc}

(* ------------------------------ helpers ------------------------------- *)

NoBatch == [start |-> [loginAttempts |-> 0, lockUntil |-> Absent],
            times |-> <<>>, clean |-> FALSE]

InFlight(id) == {r \in BagToSet(logins) : r.id = id}

ByEmail(email) == {id \in DOMAIN users : users[id].email = email}

(* ------------------------------- Init --------------------------------- *)

\* The server has started on an empty database.
Init ==
    /\ now = 0
    /\ users = << >>
    /\ regs = EmptyBag
    /\ logins = EmptyBag
    /\ sessions = {}
    /\ issued = {}
    /\ access = {}
    /\ refreshed = [tok \in Tokens |-> 0]
    /\ reqs = EmptyBag
    /\ verified = << >>
    /\ last = [op |-> "none", id |-> 0, result |-> "none"]
    /\ fails = << >>
    /\ lockedTill = << >>
    /\ batch = << >>

(* ------------------ POST /api/auth/register (section 4.6) -------------- *)

Register(username, email, p, verificationToken) ==
    /\ IF DuplicateUser(users, username, lowercase(email))
       THEN /\ last' = [op |-> "register", id |-> 0, result |-> "DUPLICATE"]
            /\ UNCHANGED <<users, verified, fails, lockedTill, batch>>
       ELSE LET id == Len(users) + 1
            IN  /\ users' = Append(users, NewUser(username, email, p, verificationToken))
                /\ last' = [op |-> "register", id |-> id, result |-> "OK"]
                /\ verified' = Append(verified, [otp |-> 0, email |-> 0, code |-> NoValue])
                /\ fails' = Append(fails, 0)
                /\ lockedTill' = Append(lockedTill, Absent)
                /\ batch' = Append(batch, NoBatch)
    /\ UNCHANGED <<regs, now, logins, reqs, tokenVars>>

\* The register handler up to its check for an account that already has
\* the username or the email.
RegisterBegin(username, email, p) ==
    /\ BagCardinality(regs) < MaxInflight
    /\ IF DuplicateUser(users, username, lowercase(email))
       THEN /\ last' = [op |-> "register", id |-> 0, result |-> "DUPLICATE",
                        stage |-> "check", email |-> email]
            /\ UNCHANGED regs
       ELSE /\ regs' = regs (+) SetToBag({[username |-> username, email |-> email, p |-> p]})
            /\ UNCHANGED last
    /\ UNCHANGED <<now, users, logins, reqs, verified, tokenVars, lockHistory>>

\* A slip: the hook's catch calling next() without the error, so that the
\* document is stored as it is.
saveNew_swallow(coll, raw, hashError) ==
    LET doc == IF hashError THEN raw ELSE preSave(raw, TRUE)
    IN  IF DuplicateUser(coll, doc.username, doc.email) THEN coll ELSE Append(coll, doc)

\* user.save() of a new document: the pre-save hook hashes the password, and
\* next(error) aborts the save when the hashing failed; the insert is then
\* refused by a unique index (E11000) or stores the document.
saveNew(coll, raw, hashError) ==
    IF hashError THEN coll
    ELSE LET doc == preSave(raw, TRUE)
         IN  IF DuplicateUser(coll, doc.username, doc.email) THEN coll ELSE Append(coll, doc)

\* The rest of the register handler: save() and the response.
RegisterSave(r, hashError, verificationToken) ==
    /\ r \in BagToSet(regs)
    /\ regs' = regs (-) SetToBag({r})
    /\ users' = saveNew(users, NewDoc(r.username, r.email, r.p, verificationToken), hashError)
    /\ last' = [op |-> "register", id |-> IF users' = users THEN 0 ELSE Len(users'),
                result |-> IF users' # users THEN "OK"
                           ELSE IF hashError THEN "ERROR" ELSE "DUPLICATE",
                stage |-> "save", email |-> r.email]
    /\ IF users' = users
       THEN UNCHANGED <<verified, lockHistory>>
       ELSE /\ verified' = Append(verified, [otp |-> 0, email |-> 0, code |-> NoValue])
            /\ fails' = Append(fails, 0)
            /\ lockedTill' = Append(lockedTill, Absent)
            /\ batch' = Append(batch, NoBatch)
    /\ UNCHANGED <<now, logins, reqs, tokenVars>>

\* A call of user.comparePassword(candidate) and what the caller gets.
ComparePasswordCall(id, candidate) ==
    /\ id \in DOMAIN users
    /\ last' = [op |-> "comparePassword", id |-> id, candidate |-> candidate,
                result |-> comparePassword(users[id], candidate)]
    /\ UNCHANGED <<now, users, regs, logins, reqs, verified, tokenVars, lockHistory>>

(* ------------------- POST /api/auth/login (section 4.6) ---------------- *)

\* The request reads the record and passes or fails the lock gate; the
\* password comparison and the write follow in LoginFail or LoginSucceed.
LoginBegin(email, pw, cap) ==
    /\ BagCardinality(logins) < cap
    /\ IF ByEmail(email) = {}
       THEN /\ last' = [op |-> "login", id |-> 0, result |-> "INVALID_CREDENTIALS"]
            /\ UNCHANGED <<logins, batch>>
       ELSE LET id == CHOOSE i \in ByEmail(email) : TRUE
                this == users[id]
                read == [loginAttempts |-> this.loginAttempts,
                         lockUntil |-> this.lockUntil,
                         match |-> comparePassword(this, pw) = "true"]
            IN  IF isLocked(this, now)
                THEN /\ last' = [op |-> "login", id |-> id, result |-> "LOCKED",
                                 match |-> read.match]
                     /\ UNCHANGED <<logins, batch>>
                ELSE IF comparePassword(this, pw) = "throw"
                THEN /\ last' = [op |-> "login", id |-> id, result |-> "ERROR",
                                 match |-> FALSE]
                     /\ UNCHANGED <<logins, batch>>
                ELSE /\ logins' = logins (+) SetToBag({[id |-> id, this |-> read]})
                     /\ last' = [op |-> "login", id |-> id, result |-> "PENDING",
                                 match |-> read.match]
                     /\ batch' = IF InFlight(id) = {}
                                 THEN [batch EXCEPT ![id] =
                                         [start |-> [loginAttempts |-> this.loginAttempts,
                                                     lockUntil |-> this.lockUntil],
                                          times |-> <<>>, clean |-> TRUE]]
                                 ELSE batch
    /\ UNCHANGED <<regs, now, users, reqs, verified, tokenVars, fails, lockedTill>>

\* Wrong password: the Lockout Policy's failure branch.
LoginFail(r) ==
    /\ r \in BagToSet(logins)
    /\ ~r.this.match
    /\ users' = [users EXCEPT ![r.id] = incLoginAttempts(r.this, @, now)]
    /\ logins' = logins (-) SetToBag({r})
    /\ last' = [op |-> "login", id |-> r.id, result |-> "INVALID_CREDENTIALS"]
    /\ fails' = [fails EXCEPT ![r.id] = IF @ > 5 THEN @ ELSE @ + 1]
    /\ lockedTill' = IF fails[r.id] + 1 = 5
                     THEN [lockedTill EXCEPT ![r.id] = now + 2 * Hour]
                     ELSE lockedTill
    /\ batch' = [batch EXCEPT ![r.id] =
                   IF Len(@.times) < MaxBatch
                   THEN [@ EXCEPT !.times = Append(@, now)]
                   ELSE [@ EXCEPT !.clean = FALSE]]
    /\ UNCHANGED <<regs, now, reqs, verified, tokenVars>>

\* Right password: the Lockout Policy's success branch, then the tokens
\* and the Session Record.
LoginSucceed(r, tok) ==
    /\ r \in BagToSet(logins)
    /\ r.this.match
    /\ tok \in Tokens \ issued
    /\ users' = [users EXCEPT ![r.id] = resetLoginAttempts(@, now)]
    /\ logins' = logins (-) SetToBag({r})
    /\ issued' = issued \cup {tok}
    /\ sessions' = SessionCreate(sessions, NewSession(r.id, tok, now + RefreshLifetime))
    /\ access' = access \cup {[userId |-> r.id, exp |-> now + AccessLifetime]}
    /\ last' = [op |-> "login", id |-> r.id, result |-> "OK",
                hadLock |-> r.this.lockUntil # Absent, tok |-> tok]
    /\ fails' = [fails EXCEPT ![r.id] = 0]
    /\ batch' = [batch EXCEPT ![r.id].clean = FALSE]
    /\ UNCHANGED <<regs, now, reqs, verified, refreshed, lockedTill>>

(* ------------ POST /api/auth/refresh, /logout (section 4.4, 4.6) ------- *)

\* A slip: the expiry compared with >= (a record is usable at its expiry).
findValidByToken_atExpiry(coll, refreshToken, t) ==
    {s \in coll : s.refreshToken = refreshToken /\ s.isValid /\ s.expiresAt >= t}

\* The Session Store's lookup: only a record flagged valid and not yet expired.
findValidByToken(coll, refreshToken, t) ==
    {s \in coll : s.refreshToken = refreshToken /\ s.isValid /\ s.expiresAt > t}

invalidate(coll, s) == (coll \ {s}) \cup {[s EXCEPT !.isValid = FALSE]}

\* Rotation: the presented token's session is retired and a new session,
\* with a fresh refresh token and a new access token, takes its place.
Refresh(tok, new) ==
    /\ IF findValidByToken(sessions, tok, now) = {}
       THEN /\ last' = [op |-> "refresh", id |-> 0, result |-> "INVALID_SESSION",
                        tok |-> tok]
            /\ UNCHANGED tokenVars
       ELSE \E s \in findValidByToken(sessions, tok, now) :
                /\ new \in Tokens \ issued
                /\ issued' = issued \cup {new}
                /\ sessions' = SessionCreate(invalidate(sessions, s),
                                    NewSession(s.userId, new, now + RefreshLifetime))
                /\ access' = access \cup {[userId |-> s.userId, exp |-> now + AccessLifetime]}
                /\ refreshed' = [refreshed EXCEPT ![tok] = @ + 1]
                /\ last' = [op |-> "refresh", id |-> s.userId, result |-> "OK",
                            tok |-> tok, new |-> new]
    /\ UNCHANGED <<regs, now, users, logins, reqs, verified, lockHistory>>

\* A slip: the guard not looking at the active flag.
authenticate_tokenOnly(at, t) ==
    /\ at \in access
    /\ at.exp > t
    /\ at.userId \in DOMAIN users

\* The Auth Guard (section 4.7): the bearer token must validate and the
\* account must exist and be active.
authenticate(at, t) ==
    /\ at \in access
    /\ at.exp > t
    /\ at.userId \in DOMAIN users
    /\ users[at.userId].isActive

Logout(at, tok) ==
    /\ IF ~authenticate(at, now)
       THEN /\ last' = [op |-> "logout", id |-> 0, result |-> "UNAUTHENTICATED"]
            /\ UNCHANGED sessions
       ELSE /\ sessions' = {IF s.refreshToken = tok THEN [s EXCEPT !.isValid = FALSE] ELSE s :
                               s \in sessions}
            /\ last' = [op |-> "logout", id |-> at.userId, result |-> "OK"]
    /\ UNCHANGED <<regs, now, users, logins, reqs, verified, issued, access, refreshed, lockHistory>>

\* The TTL index on expiresAt (expires: 0): a background pass deletes the
\* documents whose expiresAt has passed.
ExpireSessions ==
    /\ \E s \in sessions : s.expiresAt <= now
    /\ sessions' = {s \in sessions : s.expiresAt > now}
    /\ UNCHANGED <<regs, now, users, logins, reqs, verified, issued, access, refreshed, last, lockHistory>>

\* Session.create with a refresh token that a stored document already holds:
\* the collision of the generator that section 4.4 considers.
CreateColliding(id, tok) ==
    /\ id \in DOMAIN users
    /\ \E s \in sessions : s.refreshToken = tok
    /\ sessions' = SessionCreate(sessions, NewSession(id, tok, now + RefreshLifetime))
    /\ last' = [op |-> "create", id |-> id,
                result |-> IF DuplicateKey(sessions, tok) THEN "CONFLICT" ELSE "OK",
                tok |-> tok]
    /\ UNCHANGED <<regs, now, users, logins, reqs, verified, issued, access, refreshed, lockHistory>>

(* -------- verify-email, forgot-password, send-otp, verify-otp (4.5) ---- *)

\* A slip: the expiry not checked once the value matches.
verify_valueOnly(value, expiry, presented, t) ==
    IF value = NoValue \/ presented # value THEN "MISMATCH" ELSE "VERIFIED"

\* The Verification/OTP Issuer's verify: exact match on the value, and the
\* expiry checked on its own. An artifact stored without an expiry (the
\* schema keeps none for verificationToken) does not expire.
verify(value, expiry, presented, t) ==
    IF value = NoValue \/ presented # value THEN "MISMATCH"
    ELSE IF expiry # Absent /\ t > expiry THEN "EXPIRED"
    ELSE "VERIFIED"

\* A slip: the consumed code left in the record.
consumeOtp_keep(doc) == doc

consumeOtp(doc) == [doc EXCEPT !.otpCode = NoValue, !.otpExpires = Absent]

SendOTP(email, code) ==
    /\ IF ByEmail(email) = {}
       THEN /\ last' = [op |-> "sendOTP", id |-> 0, result |-> "NOT_FOUND"]
            /\ UNCHANGED <<users, verified>>
       ELSE LET id == CHOOSE i \in ByEmail(email) : TRUE
            IN  /\ users' = [users EXCEPT ![id].otpCode = code,
                                          ![id].otpExpires = now + OtpLifetime]
                /\ verified' = [verified EXCEPT ![id].otp = 0]
                /\ last' = [op |-> "sendOTP", id |-> id, result |-> "OK"]
    /\ UNCHANGED <<regs, now, logins, reqs, tokenVars, lockHistory>>

VerifyOTP(email, code) ==
    /\ IF ByEmail(email) = {}
       THEN /\ last' = [op |-> "verifyOTP", id |-> 0, result |-> "MISMATCH", code |-> code]
            /\ UNCHANGED <<users, verified>>
       ELSE LET id == CHOOSE i \in ByEmail(email) : TRUE
                result == verify(users[id].otpCode, users[id].otpExpires, code, now)
            IN  /\ last' = [op |-> "verifyOTP", id |-> id, result |-> result, code |-> code]
                /\ IF result = "VERIFIED"
                   THEN /\ users' = [users EXCEPT ![id] = consumeOtp(@)]
                        /\ verified' = [verified EXCEPT ![id].otp = @ + 1, ![id].code = code]
                   ELSE UNCHANGED <<users, verified>>
    /\ UNCHANGED <<regs, now, logins, reqs, tokenVars, lockHistory>>

VerifyEmail(token) ==
    /\ LET found == {id \in DOMAIN users :
                        verify(users[id].verificationToken, Absent, token, now) = "VERIFIED"}
       IN  IF found = {}
           THEN /\ last' = [op |-> "verifyEmail", id |-> 0, result |-> "MISMATCH"]
                /\ UNCHANGED <<users, verified>>
           ELSE LET id == CHOOSE i \in found : TRUE
                IN  /\ users' = [users EXCEPT ![id].emailVerified = TRUE,
                                              ![id].verificationToken = NoValue]
                    /\ verified' = [verified EXCEPT ![id].email = @ + 1]
                    /\ last' = [op |-> "verifyEmail", id |-> id, result |-> "VERIFIED"]
    /\ UNCHANGED <<regs, now, logins, reqs, tokenVars, lockHistory>>

\* Answers ok whether or not the account exists.
ForgotPassword(email, token) ==
    /\ users' = [id \in DOMAIN users |->
                   IF users[id].email = email
                   THEN [users[id] EXCEPT !.resetPasswordToken = token,
                                          !.resetPasswordExpires = now + ResetLifetime]
                   ELSE users[id]]
    /\ last' = [op |-> "forgotPassword", id |-> 0, result |-> "OK"]
    /\ UNCHANGED <<regs, now, logins, reqs, verified, tokenVars, lockHistory>>

(* ------------- /api/users (server.js:119, routes/users.js) ------------- *)

\* app.use('/api/users', authenticate, userRoutes): the first guard.
Arrive(route, at, body) ==
    /\ BagCardinality(reqs) < MaxRequests
    /\ IF authenticate(at, now)
       THEN /\ reqs' = reqs (+) SetToBag({[route |-> route, at |-> at, stage |-> "route",
                                           body |-> body]})
            /\ UNCHANGED last
       ELSE /\ last' = [op |-> route, id |-> at.userId, result |-> "UNAUTHENTICATED",
                        live |-> at.exp > now]
            /\ UNCHANGED reqs
    /\ UNCHANGED <<regs, now, users, logins, verified, tokenVars, lockHistory>>

\* router.<verb>('/profile', authenticate, ...): the route's own guard.
\* GET /profile answers with the identity this guard attached.
RouteGuard(r) ==
    /\ r \in BagToSet(reqs)
    /\ r.stage = "route"
    /\ IF ~authenticate(r.at, now)
       THEN /\ reqs' = reqs (-) SetToBag({r})
            /\ last' = [op |-> r.route, id |-> r.at.userId, result |-> "UNAUTHENTICATED",
                        live |-> r.at.exp > now]
       ELSE IF r.route = "GET /profile"
       THEN /\ reqs' = reqs (-) SetToBag({r})
            /\ last' = [op |-> r.route, id |-> r.at.userId, result |-> "OK",
                        live |-> r.at.exp > now]
       ELSE /\ reqs' = (reqs (-) SetToBag({r})) (+) SetToBag({[r EXCEPT !.stage = "find"]})
            /\ UNCHANGED last
    /\ UNCHANGED <<regs, now, users, logins, verified, tokenVars, lockHistory>>

\* const user = await User.findById(req.userId)
HandlerFind(r) ==
    /\ r \in BagToSet(reqs)
    /\ r.stage = "find"
    /\ IF r.at.userId \notin DOMAIN users
       THEN /\ reqs' = reqs (-) SetToBag({r})
            /\ last' = [op |-> r.route, id |-> r.at.userId, result |-> "NOT_FOUND",
                        live |-> r.at.exp > now]
       ELSE IF r.route = "GET /stats"
       THEN /\ reqs' = reqs (-) SetToBag({r})
            /\ last' = [op |-> r.route, id |-> r.at.userId, result |-> "OK",
                        live |-> r.at.exp > now]
       ELSE /\ reqs' = (reqs (-) SetToBag({r})) (+) SetToBag({[r EXCEPT !.stage = "save"]})
            /\ UNCHANGED last
    /\ UNCHANGED <<regs, now, users, logins, verified, tokenVars, lockHistory>>

\* A slip: the whole body assigned to the document (Object.assign).
putProfile_assignAll(doc, body) ==
    [f \in DOMAIN doc |->
        IF f \notin DOMAIN body THEN doc[f]
        ELSE IF f \in StringFields /\ body[f] = NoValue THEN doc[f]
        ELSE body[f]]

\* PUT /profile: the fields the body defines are assigned.
putProfile(doc, body) ==
    [doc EXCEPT !.firstName = IF body.firstName # NoValue THEN body.firstName ELSE @,
                !.lastName = IF body.lastName # NoValue THEN body.lastName ELSE @,
                !.organization = IF body.organization # NoValue THEN body.organization ELSE @,
                !.country = IF body.country # NoValue THEN body.country ELSE @]

\* DELETE /profile: the account is deactivated, not removed.
deleteProfile(doc) == [doc EXCEPT !.isActive = FALSE]

\* A slip: the account removed from the collection (findByIdAndDelete).
HandlerSave_hardDelete(r) ==
    /\ r \in BagToSet(reqs)
    /\ r.stage = "save"
    /\ users' = IF r.route = "PUT /profile"
                THEN [users EXCEPT ![r.at.userId] = putProfile(@, r.body)]
                ELSE SubSeq(users, 1, r.at.userId - 1)
                         \o SubSeq(users, r.at.userId + 1, Len(users))
    /\ reqs' = reqs (-) SetToBag({r})
    /\ last' = [op |-> r.route, id |-> r.at.userId, result |-> "OK",
                live |-> r.at.exp > now]
    /\ UNCHANGED <<regs, now, logins, verified, tokenVars, lockHistory>>

\* await user.save(): the modified paths are written; the password is not
\* among them, so the pre-save hook leaves it.
HandlerSave(r) ==
    /\ r \in BagToSet(reqs)
    /\ r.stage = "save"
    /\ users' = [users EXCEPT ![r.at.userId] =
                    preSave(IF r.route = "PUT /profile" THEN putProfile(@, r.body)
                            ELSE deleteProfile(@), FALSE)]
    /\ reqs' = reqs (-) SetToBag({r})
    /\ last' = IF r.route = "PUT /profile"
               THEN [op |-> r.route, id |-> r.at.userId, result |-> "OK",
                     live |-> r.at.exp > now, user |-> toJSON(users'[r.at.userId])]
               ELSE [op |-> r.route, id |-> r.at.userId, result |-> "OK",
                     live |-> r.at.exp > now]
    /\ UNCHANGED <<regs, now, logins, verified, tokenVars, lockHistory>>

Tick ==
    /\ now < MaxNow * Hour
    /\ now' = now + Hour
    /\ UNCHANGED <<regs, users, logins, reqs, verified, tokenVars, last, lockHistory>>

(* --------------------------- specifications --------------------------- *)

RegisterAlice == Register("alice", "alice@x.com", "Passw0rd", "v1")

LoginArrivesAlone == \E email \in Emails, pw \in Passwords : LoginBegin(email, pw, 1)

LoginRejected == \E r \in BagToSet(logins) : LoginFail(r)

\* The token generator: a value never issued before. Which one is immaterial,
\* so the values are handed out in order; a generator that repeats a stored
\* value is CreateColliding.
NewToken == Cardinality(issued) + 1

LoginAccepted == \E r \in BagToSet(logins) : LoginSucceed(r, NewToken)

LoginValidArrives == \E email \in Emails : LoginBegin(email, "Passw0rd", 1)

RefreshArrives == \E tok \in Tokens : Refresh(tok, NewToken)

LogoutArrives == \E at \in access, tok \in Tokens : Logout(at, tok)

Collision == \E id \in DOMAIN users, tok \in Tokens : CreateColliding(id, tok)

OtpSent == \E email \in Emails, code \in OtpCodes : SendOTP(email, code)

OtpPresented == \E email \in Emails, code \in OtpCodes : VerifyOTP(email, code)

EmailTokenPresented == \E token \in VerificationTokens : VerifyEmail(token)

PasswordForgotten == \E email \in Emails, token \in ResetTokens : ForgotPassword(email, token)

SignInArrives ==
    /\ Cardinality(issued) < MaxSignIns
    /\ LoginValidArrives

RequestArrives ==
    \E route \in Routes, at \in access :
        \E body \in IF route = "PUT /profile" THEN Bodies ELSE {NoBody} :
            Arrive(route, at, body)

RegisterBob == Register("bob", "bob@x.com", "Secr3tPw", "v0")

ProfileRequestArrives ==
    \E at \in access :
        \/ \E body \in Bodies \cup {CraftedBody} : Arrive("PUT /profile", at, body)
        \/ Arrive("DELETE /profile", at, NoBody)

RequestGuarded == \E r \in BagToSet(reqs) : RouteGuard(r)

RequestFinds == \E r \in BagToSet(reqs) : HandlerFind(r)

RequestSaves == \E r \in BagToSet(reqs) : HandlerSave(r)

RegisterArrives ==
    \E username \in Usernames, email \in TypedEmails, p \in NewPasswords :
        RegisterBegin(username, email, p)

RegisterSaves ==
    \E r \in BagToSet(regs), hashError \in BOOLEAN : RegisterSave(r, hashError, "v1")

LoginFailsArrive == \E email \in Emails : LoginBegin(email, "wrongpass", MaxInflight)

NextLoginSeq == RegisterAlice \/ LoginArrivesAlone \/ LoginRejected \/ LoginAccepted \/ Tick

NextLoginRace == RegisterAlice \/ LoginFailsArrive \/ LoginRejected \/ Tick

NextSession ==
    \/ RegisterAlice \/ LoginValidArrives \/ LoginAccepted \/ RefreshArrives
    \/ LogoutArrives \/ ExpireSessions \/ Collision \/ Tick

\* Logins with the right password, refreshes, logouts and the TTL pass.
SpecSession == Init /\ [][NextSession]_vars

NextVerify ==
    \/ RegisterAlice \/ OtpSent \/ OtpPresented \/ EmailTokenPresented
    \/ PasswordForgotten \/ Tick

\* The verification artifacts: issue and present.
SpecVerify == Init /\ [][NextVerify]_vars

NextGuard ==
    \/ RegisterAlice \/ SignInArrives \/ LoginAccepted \/ RequestArrives
    \/ RequestGuarded \/ RequestFinds \/ RequestSaves \/ Tick

\* Logins with the right password and the protected /api/users routes.
SpecGuard == Init /\ [][NextGuard]_vars

PasswordCompared ==
    \E id \in DOMAIN users, candidate \in Candidates : ComparePasswordCall(id, candidate)

NextRegister == RegisterArrives \/ RegisterSaves \/ PasswordCompared \/ Tick

\* Register requests that overlap: up to MaxInflight of them are between the
\* handler's check and their save(); the stored passwords are compared with
\* candidates.
SpecRegister == Init /\ [][NextRegister]_vars

NextPublicView == NextGuard \/ OtpSent

\* The protected routes for an account that may have an OTP outstanding.
SpecPublicView == Init /\ [][NextPublicView]_vars

NextProfile ==
    \/ RegisterAlice \/ RegisterBob \/ LoginArrivesAlone \/ LoginRejected
    \/ LoginAccepted \/ ProfileRequestArrives \/ RequestGuarded \/ RequestFinds
    \/ RequestSaves

\* Two accounts; one logs in, with wrong passwords too, and updates and
\* removes its profile in overlapping requests.
SpecProfile == Init /\ [][NextProfile]_vars

\* Logins arrive one after another: each completes before the next is read.
SpecLoginSeq == Init /\ [][NextLoginSeq]_vars

\* Logins with a wrong password overlap: up to MaxInflight requests are
\* between their read of the record and their write.
SpecLoginRace == Init /\ [][NextLoginRace]_vars

(* ------------------------------ lockout ------------------------------- *)

\* The lock is in force, read off the stored fields.
LockInForce(id) == users[id].lockUntil # Absent /\ users[id].lockUntil > now

\* C1: after exactly 5 failed logins in a row on a record that was unlocked
\* with attemptCount 0, lockUntil is the time of the 5th failure + 2 hours,
\* and the record stays locked at every later time before that end, whatever
\* logins arrive meanwhile.
C1_LockedAfterMaxAttempts ==
    \A id \in DOMAIN users :
        /\ fails[id] = 5 => users[id].lockUntil = lockedTill[id]
        /\ (lockedTill[id] # Absent /\ now < lockedTill[id]) => LockInForce(id)

\* A login with the right password arrived inside the lock window, an hour
\* after the 5th failure, and the record is still locked.
C1_Witness ==
    \E id \in DOMAIN users :
        /\ fails[id] = 5 /\ now = lockedTill[id] - Hour
        /\ last.op = "login" /\ last.result = "LOCKED" /\ last.match

\* C2: a login that arrives while the record is locked is answered LOCKED,
\* with the right password or a wrong one, and changes nothing of the record
\* (no attempt is counted, no lock is set or cleared).
C2_LockedLoginRejected ==
    [][\A email \in Emails, pw \in Passwords, cap \in {1, MaxInflight} :
          (LoginBegin(email, pw, cap) /\ \E id \in ByEmail(email) : LockInForce(id))
              => (last'.result = "LOCKED" /\ users' = users /\ logins' = logins)]_vars

\* The right password was presented to a locked record and answered LOCKED.
C2_Witness ==
    /\ last.op = "login" /\ last.result = "LOCKED" /\ last.match
    /\ LockInForce(last.id) /\ users[last.id].loginAttempts = 5

\* C3: on a record that was locked, a login with the right password made
\* once the lock has elapsed is admitted and succeeds, leaving attemptCount 0,
\* lockUntil absent, lastLogin the time of the login and accessCount one more.
C3_SuccessAfterLockResets ==
    [][/\ \A email \in Emails, cap \in {1, MaxInflight} :
            (/\ LoginBegin(email, "Passw0rd", cap)
             /\ \E id \in ByEmail(email) :
                    /\ users[id].lockUntil # Absent /\ users[id].lockUntil <= now
                    /\ comparePassword(users[id], "Passw0rd") = "true")
                => last'.result = "PENDING"
       /\ \A r \in BagToSet(logins), tok \in Tokens :
            (LoginSucceed(r, tok) /\ r.this.lockUntil # Absent)
                => /\ last'.result = "OK"
                   /\ users'[r.id].loginAttempts = 0
                   /\ users'[r.id].lockUntil = Absent
                   /\ users'[r.id].lastLogin = now
                   /\ users'[r.id].accessCount = users[r.id].accessCount + 1]_vars

\* A login has just succeeded on a record whose lock had elapsed.
C3_Witness ==
    /\ last.op = "login" /\ last.result = "OK" /\ last.hadLock
    /\ users[last.id].loginAttempts = 0 /\ users[last.id].lockUntil = Absent
    /\ users[last.id].lastLogin = now /\ users[last.id].accessCount = 1

Perms(n) == {p \in [1 .. n -> 1 .. n] : \A i, j \in 1 .. n : p[i] = p[j] => i = j}

\* The record after the failures at times[p[i]], ..., times[p[n]] applied
\* one after another, each reading the record the one before it left.
RECURSIVE Serial(_, _, _, _)
Serial(rec, times, p, i) ==
    IF i > Len(times) THEN rec
    ELSE Serial(incLoginAttempts(rec, rec, times[p[i]]), times, p, i + 1)

SerialAttempts(rec, times) ==
    {Serial(rec, times, p, 1).loginAttempts : p \in Perms(Len(times))}

\* C4: when the overlapping failed logins of a batch have all completed, the
\* stored attemptCount is what the same failures give applied one after
\* another in some order.
C4_NoLostFailure ==
    \A id \in DOMAIN users :
        (InFlight(id) = {} /\ batch[id].clean /\ batch[id].times # <<>>)
            => users[id].loginAttempts \in SerialAttempts(batch[id].start, batch[id].times)

(* ------------------------------ sessions ------------------------------ *)

C6_OnlyValidUnexpiredUsable ==
    [][\A tok \in Tokens, new \in Tokens :
          (/\ Refresh(tok, new)
           /\ ~\E s \in sessions :
                  s.refreshToken = tok /\ s.isValid = TRUE /\ s.expiresAt > now)
              => /\ last'.result = "INVALID_SESSION"
                 /\ access' = access /\ sessions' = sessions]_vars

\* A refresh was refused for a token whose record is still stored, flagged
\* valid, and expired (the TTL pass has not removed it), while another
\* stored record is flagged invalid.
C6_Witness ==
    /\ last.op = "refresh" /\ last.result = "INVALID_SESSION"
    /\ \E s \in sessions : s.refreshToken = last.tok /\ s.isValid /\ s.expiresAt <= now
    /\ \E s \in sessions : ~s.isValid

\* C7: no two Session Records hold the same refresh token, and a create
\* with a token that a stored record holds is refused with a conflict and
\* leaves the collection as it was.
C7_RefreshTokenUnique ==
    [][/\ \A s1, s2 \in sessions' : s1.refreshToken = s2.refreshToken => s1 = s2
       /\ \A id \in DOMAIN users, tok \in Tokens :
            CreateColliding(id, tok)
                => (sessions' = sessions /\ last'.result = "CONFLICT")]_vars

\* A create that collided with a stored record of another expiry was refused.
C7_Witness ==
    /\ last.op = "create" /\ last.result = "CONFLICT"
    /\ \E s \in sessions :
          s.refreshToken = last.tok /\ s.expiresAt # now + RefreshLifetime

(* ----------------------- verification artifacts ------------------------ *)

\* C8: verification artifacts are single-use: between two issuances at most
\* one verify call is answered VERIFIED; a VERIFIED answer clears the stored
\* value together with its expiry, and every presentation after it, of the
\* same value too, is answered MISMATCH.
C8_ArtifactSingleUse ==
    [][/\ \A id \in DOMAIN verified' :
            verified'[id].otp <= 1 /\ verified'[id].email <= 1
       /\ \A email \in Emails, code \in OtpCodes :
            VerifyOTP(email, code)
                => \A id \in ByEmail(email) :
                       /\ last'.result = "VERIFIED"
                             => /\ users'[id].otpCode = NoValue
                                /\ users'[id].otpExpires = Absent
                       /\ verified[id].otp >= 1 => last'.result = "MISMATCH"
       /\ \A token \in VerificationTokens :
            (VerifyEmail(token) /\ last'.result = "VERIFIED")
                => /\ verified[last'.id].email = 0
                   /\ users'[last'.id].verificationToken = NoValue]_vars

\* The OTP code that was verified has been presented again, before its
\* expiry would have passed, and was answered MISMATCH; the email token of the
\* same account has been consumed as well.
C8_Witness ==
    /\ last.op = "verifyOTP" /\ last.result = "MISMATCH"
    /\ last.id \in DOMAIN users
    /\ verified[last.id].otp = 1 /\ verified[last.id].code = last.code
    /\ verified[last.id].email = 1
    /\ users[last.id].otpCode = NoValue

\* C9: a presented value that matches the stored one after the stored expiry
\* is answered EXPIRED, not VERIFIED, and the record is left as it was: the
\* flags are not set and the artifact is not consumed.
C9_ExpiredNotVerified ==
    [][\A email \in Emails, code \in OtpCodes :
          (/\ VerifyOTP(email, code)
           /\ \E id \in ByEmail(email) :
                  /\ users[id].otpCode = code
                  /\ users[id].otpExpires # Absent /\ now > users[id].otpExpires)
              => (last'.result = "EXPIRED" /\ users' = users /\ verified' = verified)]_vars

\* The stored code was presented after its expiry and answered EXPIRED; it is
\* still stored, and the account's email is still unverified.
C9_Witness ==
    /\ last.op = "verifyOTP" /\ last.result = "EXPIRED"
    /\ users[last.id].otpCode = last.code
    /\ now > users[last.id].otpExpires
    /\ ~users[last.id].emailVerified

(* --------------------------- deactivation ------------------------------ *)

\* C10 as stated: once the account is deactivated no protected handler runs
\* for it again. A request that passed the guards before the deactivation
\* was saved still runs its handler.
C10_NoHandlerAfterDeactivation ==
    [][\A r \in BagToSet(reqs) :
          (HandlerFind(r) \/ HandlerSave(r)) => users[r.at.userId].isActive]_vars

\* C10, amended: every guard check that runs once the account is deactivated
\* rejects the request as UNAUTHENTICATED, whatever the access token's expiry,
\* and the request goes no further: the record is left as it was and no
\* handler is entered.
C10_GuardRejectsDeactivated ==
    [][/\ \A route \in Routes, at \in access, body \in Bodies \cup {NoBody} :
            (Arrive(route, at, body) /\ ~users[at.userId].isActive)
                => /\ last'.result = "UNAUTHENTICATED"
                   /\ reqs' = reqs /\ users' = users
       /\ \A r \in BagToSet(reqs) :
            (RouteGuard(r) /\ ~users[r.at.userId].isActive)
                => /\ last'.result = "UNAUTHENTICATED"
                   /\ reqs' = reqs (-) SetToBag({r}) /\ users' = users]_vars

\* A request with an access token that has not expired was rejected as
\* UNAUTHENTICATED: the account it names is deactivated.
C10_Witness ==
    /\ last.op \in Routes /\ last.result = "UNAUTHENTICATED"
    /\ last.live
    /\ ~users[last.id].isActive

(* ------------------------- the stored records -------------------------- *)

C12_UniqueUsernameEmail ==
    [][/\ \A i, j \in DOMAIN users' :
            i # j => /\ users'[i].username # users'[j].username
                     /\ lowercase(users'[i].email) # lowercase(users'[j].email)
       /\ \A username \in Usernames, email \in TypedEmails, p \in NewPasswords :
            (/\ RegisterBegin(username, email, p)
             /\ \E id \in DOMAIN users :
                    \/ users[id].username = username
                    \/ lowercase(users[id].email) = lowercase(email))
                => (last'.result = "DUPLICATE" /\ users' = users /\ regs' = regs)
       /\ \A r \in BagToSet(regs) :
            (/\ RegisterSave(r, FALSE, "v1")
             /\ \E id \in DOMAIN users :
                    \/ users[id].username = r.username
                    \/ lowercase(users[id].email) = lowercase(r.email))
                => (last'.result = "DUPLICATE" /\ users' = users)]_vars

\* Of two requests that raced past the check with addresses that differ in
\* case only, the first was stored and the second refused at its save.
C12_Witness ==
    /\ last.op = "register" /\ last.result = "DUPLICATE" /\ last.stage = "save"
    /\ last.email = "Alice@X.com"
    /\ \E id \in DOMAIN users : users[id].email = "alice@x.com" /\ users[id].username = "bob"

(* --------------------- the lockout, at its edges ----------------------- *)

\* C13: a failed login on a record whose lockUntil is set and whose lock is
\* no longer in force leaves attemptCount 1 and lockUntil absent, whatever
\* the count was: the failure does not set a new lock.
C13_FailureAfterLockResets ==
    [][\A r \in BagToSet(logins) :
          (/\ LoginFail(r)
           /\ users[r.id].lockUntil # Absent /\ ~LockInForce(r.id))
              => /\ users'[r.id].loginAttempts = 1
                 /\ users'[r.id].lockUntil = Absent]_vars

\* C14: while a lock is in force no failed login changes lockUntil, a login
\* that read the record before the lock was written included: the lock ends
\* when the attempt that set it said.
C14_LockNotExtended ==
    [][\A r \in BagToSet(logins) :
          (LoginFail(r) /\ LockInForce(r.id))
              => users'[r.id].lockUntil = users[r.id].lockUntil]_vars

\* C18: the attempt counter of every record stays within 0 .. maxAttempts,
\* for every timing of the attempts, one made at now = lockUntil included.
C18_AttemptsWithinMax ==
    \A id \in DOMAIN users :
        users[id].loginAttempts >= 0 /\ users[id].loginAttempts <= maxAttempts

\* C19: when no login for the record is in flight, attemptCount >=
\* maxAttempts implies that lockUntil is set.
C19_ThresholdImpliesLock ==
    \A id \in DOMAIN users :
        (InFlight(id) = {} /\ users[id].loginAttempts >= maxAttempts)
            => users[id].lockUntil # Absent

(* --------------------------- the password ------------------------------ *)

\* C15: the stored password is the plaintext hashed once, from the save that
\* created the record on: no later save changes it, the saves of
\* PUT /profile and DELETE /profile included, so it is never the plaintext and
\* never hashed a second time.
C15_HashOnlyWhenModified ==
    [][/\ \A id \in DOMAIN users' : users'[id].password.rounds = 1
       /\ \A id \in DOMAIN users : users'[id].password = users[id].password
       /\ \A r \in BagToSet(reqs) :
            HandlerSave(r) => users'[r.at.userId].password = Hash(Plain("Passw0rd"))]_vars

\* The profile was updated and the account then deactivated; the stored
\* password is still the hash that the registration stored.
C15_Witness ==
    /\ last.op = "DELETE /profile" /\ last.result = "OK"
    /\ users[last.id].country = "GA"
    /\ ~users[last.id].isActive
    /\ users[last.id].password = Hash(Plain("Passw0rd"))

\* C16: when the comparison itself fails, comparePassword returns false to
\* its caller: it does not throw.
C16_CompareErrorIsNonMatch ==
    (last.op = "comparePassword" /\ last.candidate \in NotStrings)
        => last.result = "false"

\* C17: when the hashing fails in the save of a new record the save fails as
\* a whole: no record is created or changed, and no stored record holds a
\* password that is not hashed.
C17_HashFailureAbortsSave ==
    [][/\ \A r \in BagToSet(regs) :
            RegisterSave(r, TRUE, "v1")
                => (users' = users /\ last'.result = "ERROR")
       /\ \A id \in DOMAIN users' : users'[id].password.rounds = 1]_vars

\* A registration whose hashing failed was answered with an error while an
\* earlier one is stored; the address of the failed one is in no record.
C17_Witness ==
    /\ last.op = "register" /\ last.result = "ERROR"
    /\ Len(users) = 1
    /\ \A id \in DOMAIN users : users[id].email # lowercase(last.email)

(* --------------------------- the public view --------------------------- *)

\* C20: the user object of a profile response holds neither the password
\* hash, nor the attempt counter, nor the lock's end, nor the value or expiry
\* of a verification artifact, an outstanding OTP code included.
C20_PublicViewHidesSecrets ==
    (last.op = "PUT /profile" /\ last.result = "OK")
        => DOMAIN last.user \cap {"password", "loginAttempts", "lockUntil",
                                  "verificationToken", "resetPasswordToken",
                                  "resetPasswordExpires", "otpCode", "otpExpires"} = {}

(* ------------------------- the profile update -------------------------- *)

====
